---- MODULE Spec2Model ----
(***************************************************************************)
(* Conflict diagnosis of lalrpop (lalrpop/src/lr1/error/mod.rs): the pass  *)
(* report_errors over the states of an LR(1) automaton, the gathering of   *)
(* examples from the Tracer, the classification heuristics of classify and *)
(* the message each classification is turned into.                         *)
(***************************************************************************)
EXTENDS Integers, Sequences, FiniteSets, TLC

(***************************************************************************)
(* Values of grammar::repr and lr1::core, as the error module reads them.  *)
(***************************************************************************)
Terminal(id) == [kind |-> "Terminal", id |-> id]

Nonterminal(id) == [kind |-> "Nonterminal", id |-> id]

EOF == [kind |-> "EOF", id |-> ""]

Production(nt, syms) == [nonterminal |-> nt, symbols |-> syms]

NoProduction == Production("", <<>>)

Shift(target) == [kind |-> "Shift", target |-> target, production |-> NoProduction]

Reduce(production) == [kind |-> "Reduce", target |-> 0, production |-> production]

Conflict(state, production, action) ==
    [state |-> state, production |-> production, action |-> action]

Item(production, index, lookahead) ==
    [production |-> production, index |-> index, lookahead |-> lookahead]

Reduction(nt, start, end) == [nonterminal |-> nt, start |-> start, end |-> end]

Example(symbols, cursor, reductions) ==
    [symbols |-> symbols, cursor |-> cursor, reductions |-> reductions]

NoExample == Example(<<>>, 0, <<>>)

NoSymbol == [kind |-> "None", id |-> ""]

(***************************************************************************)
(* ConflictClassification.  One record shape for the six variants; the     *)
(* field `action` is the variant's `action` (Ambiguity,                    *)
(* InsufficientLookahead) or `shift` (Precedence, SuggestInline,           *)
(* SuggestQuestion) example.  Panic is not a variant: it stands for a call *)
(* that unwinds instead of returning.                                      *)
(***************************************************************************)
Classification(kind, action, reduce, nt, symbol) ==
    [kind |-> kind, action |-> action, reduce |-> reduce,
     nonterminal |-> nt, symbol |-> symbol]

Variants ==
    {"Ambiguity", "Precedence", "SuggestInline", "SuggestQuestion",
     "InsufficientLookahead", "Naive"}

Naive == Classification("Naive", NoExample, NoExample, "", NoSymbol)

Panic(why) == Classification("Panic", NoExample, NoExample, why, NoSymbol)

None == Classification("None", NoExample, NoExample, "", NoSymbol)

(***************************************************************************)
(* classify, lines 382-384: Vec::sort_by on symbols.len(), a stable sort.  *)
(***************************************************************************)
\* An unstable sort: an example goes before those of its length.
RECURSIVE InsertByLen_BeforeEqual(_, _)
InsertByLen_BeforeEqual(e, sorted) ==
    IF sorted = <<>> THEN <<e>>
    ELSE IF Len(e.symbols) <= Len(Head(sorted).symbols)
         THEN <<e>> \o sorted
         ELSE <<Head(sorted)>> \o InsertByLen_BeforeEqual(e, Tail(sorted))

\* The comparison of line 382 reversed: longest first.
RECURSIVE InsertByLen_LongestFirst(_, _)
InsertByLen_LongestFirst(e, sorted) ==
    IF sorted = <<>> THEN <<e>>
    ELSE IF Len(e.symbols) > Len(Head(sorted).symbols)
         THEN <<e>> \o sorted
         ELSE <<Head(sorted)>> \o InsertByLen_LongestFirst(e, Tail(sorted))

RECURSIVE InsertByLen(_, _)
InsertByLen(e, sorted) ==
    IF sorted = <<>> THEN <<e>>
    ELSE IF Len(e.symbols) < Len(Head(sorted).symbols)
         THEN <<e>> \o sorted
         ELSE <<Head(sorted)>> \o InsertByLen(e, Tail(sorted))

\* Lines 382-384 left out: the lists stay in the order gathered.
SortByLen_Omitted(examples) == examples

RECURSIVE SortByLen(_)
SortByLen(examples) ==
    IF examples = <<>> THEN <<>>
    ELSE InsertByLen(examples[Len(examples)],
                     SortByLen(SubSeq(examples, 1, Len(examples) - 1)))

(***************************************************************************)
(* itertools' cartesian_product: the pairs (action, reduce) with the       *)
(* action examples as the outer sequence.  Pair k (from 0) of an m x n     *)
(* product is (k \div n + 1, k % n + 1).                                   *)
(***************************************************************************)
PairCount(as, rs) == Len(as) * Len(rs)

PairAction(as, rs, k) == as[(k \div Len(rs)) + 1]

PairReduce(as, rs, k) == rs[(k % Len(rs)) + 1]

PairIndices(as, rs) == 0..(PairCount(as, rs) - 1)

\* Iterator::last in place of next: the last pair kept, or -1.
FirstPair_Last(hits) ==
    IF hits = {} THEN -1
    ELSE CHOOSE k \in hits : \A j \in hits : k >= j

\* Iterator::next on the filtered product: the first pair kept, or -1.
FirstPair(hits) ==
    IF hits = {} THEN -1
    ELSE CHOOSE k \in hits : \A j \in hits : k <= j

(***************************************************************************)
(* try_classify_ambiguity, lines 416-453.                                  *)
(***************************************************************************)
\* The filter without line 426: the cursors are not compared.
AmbiguityFilter_SymbolsOnly(action, reduce) ==
    action.symbols = reduce.symbols

AmbiguityFilter(action, reduce) ==
    /\ action.symbols = reduce.symbols
    /\ action.cursor = reduce.cursor

\* The test of lines 431-437 with `T S T` over any nonterminal T, not the
\* production's own.
IsPrecedence_AnyHead(lookahead, conflict) ==
    /\ conflict.action.kind = "Shift"
    /\ lookahead.kind = "Terminal"
    /\ LET symbols == conflict.production.symbols
       IN /\ Len(symbols) = 3
          /\ symbols[1].kind = "Nonterminal"
          /\ symbols[2] = Terminal(lookahead.id)
          /\ symbols[3] = symbols[1]

\* The test of lines 431-437 without line 431: the action is not looked at.
IsPrecedence_AnyAction(lookahead, conflict) ==
    /\ lookahead.kind = "Terminal"
    /\ LET nt == conflict.production.nonterminal
           symbols == conflict.production.symbols
       IN /\ Len(symbols) = 3
          /\ symbols[1] = Nonterminal(nt)
          /\ symbols[2] = Terminal(lookahead.id)
          /\ symbols[3] = Nonterminal(nt)

IsPrecedence(lookahead, conflict) ==
    /\ conflict.action.kind = "Shift"
    /\ lookahead.kind = "Terminal"
    /\ LET nt == conflict.production.nonterminal
           symbols == conflict.production.symbols
       IN /\ Len(symbols) = 3
          /\ symbols[1] = Nonterminal(nt)
          /\ symbols[2] = Terminal(lookahead.id)
          /\ symbols[3] = Nonterminal(nt)

try_classify_ambiguity(lookahead, conflict, action_examples, reduce_examples) ==
    LET k == FirstPair({i \in PairIndices(action_examples, reduce_examples) :
                AmbiguityFilter(PairAction(action_examples, reduce_examples, i),
                                PairReduce(action_examples, reduce_examples, i))})
        action == PairAction(action_examples, reduce_examples, k)
        reduce == PairReduce(action_examples, reduce_examples, k)
    IN IF k = -1 THEN None
       ELSE IF IsPrecedence(lookahead, conflict)
            THEN Classification("Precedence", action, reduce,
                                conflict.production.nonterminal, NoSymbol)
            ELSE Classification("Ambiguity", action, reduce, "", NoSymbol)

(***************************************************************************)
(* inner_suffix, lines 501-504: &example.symbols[end..] with end the end   *)
(* of reductions[0].  The slice panics when end > symbols.len().           *)
(***************************************************************************)
\* The slice taken one symbol further, symbols[end + 1..].
InnerSuffixPanics_OffByOne(example) ==
    example.reductions[1].end >= Len(example.symbols)

InnerSuffixPanics(example) ==
    example.reductions[1].end > Len(example.symbols)

\* The slice taken after the end of the last reduction, not the first.
inner_suffix_AfterLast(example) ==
    SubSeq(example.symbols,
           example.reductions[Len(example.reductions)].end + 1,
           Len(example.symbols))

inner_suffix(example) ==
    SubSeq(example.symbols, example.reductions[1].end + 1, Len(example.symbols))

(***************************************************************************)
(* try_classify_inline, lines 455-499.  The filters are lazy: a pair       *)
(* reaches inner_suffix only after the three filters before it passed, and *)
(* the search ends at the first pair that passes all four or panics.       *)
(***************************************************************************)
\* The filters of lines 464-468 asking different nonterminals of the action
\* example too.
InlineShapeFilter_BothDiffer(action, reduce) ==
    /\ Len(action.reductions) = 2
    /\ Len(reduce.reductions) = 2
    /\ reduce.reductions[1].nonterminal # reduce.reductions[2].nonterminal
    /\ action.reductions[1].nonterminal # action.reductions[2].nonterminal

InlineShapeFilter(action, reduce) ==
    /\ Len(action.reductions) = 2
    /\ Len(reduce.reductions) = 2
    /\ reduce.reductions[1].nonterminal # reduce.reductions[2].nonterminal

InlineSuffixPanics(action, reduce) ==
    InnerSuffixPanics(action) \/ InnerSuffixPanics(reduce)

InlineStop(action, reduce) ==
    /\ InlineShapeFilter(action, reduce)
    /\ \/ InlineSuffixPanics(action, reduce)
       \/ inner_suffix(action) = inner_suffix(reduce)

\* The loop of line 478 over (0, 1) alone.
QuestionIndex_FirstOrderOnly(nt_productions) ==
    IF Len(nt_productions) # 2 THEN 0
    ELSE IF /\ nt_productions[1].symbols = <<>>
            /\ Len(nt_productions[2].symbols) = 1 THEN 2
    ELSE 0

\* Lines 477-491: the shape `X = symbol | ()`, in either order.
QuestionIndex(nt_productions) ==
    IF Len(nt_productions) # 2 THEN 0
    ELSE IF /\ nt_productions[1].symbols = <<>>
            /\ Len(nt_productions[2].symbols) = 1 THEN 2
    ELSE IF /\ nt_productions[2].symbols = <<>>
            /\ Len(nt_productions[1].symbols) = 1 THEN 1
    ELSE 0

try_classify_inline(grammar, action_examples, reduce_examples) ==
    LET k == FirstPair({i \in PairIndices(action_examples, reduce_examples) :
                InlineStop(PairAction(action_examples, reduce_examples, i),
                           PairReduce(action_examples, reduce_examples, i))})
        action == PairAction(action_examples, reduce_examples, k)
        reduce == PairReduce(action_examples, reduce_examples, k)
        nt == reduce.reductions[1].nonterminal
        nt_productions == grammar[nt]
        j == QuestionIndex(nt_productions)
    IN IF k = -1 THEN None
       ELSE IF InlineSuffixPanics(action, reduce)
            THEN Panic("slice index out of range")
       ELSE IF j # 0
            THEN Classification("SuggestQuestion", action, reduce, nt,
                                nt_productions[j].symbols[1])
            ELSE Classification("SuggestInline", action, reduce, nt, NoSymbol)

(***************************************************************************)
(* classify, lines 386-413: the tiers over the sorted lists.               *)
(***************************************************************************)
\* The zip of line 405 as a zip_longest: a missing side is padded.
Fallback_Padded(action_examples, reduce_examples) ==
    IF action_examples # <<>> \/ reduce_examples # <<>>
    THEN Classification("InsufficientLookahead",
                        IF action_examples # <<>> THEN action_examples[1]
                        ELSE NoExample,
                        IF reduce_examples # <<>> THEN reduce_examples[1]
                        ELSE NoExample,
                        "", NoSymbol)
    ELSE Naive

\* The pair taken from the back of the zip: the last example of each list.
Fallback_LastPair(action_examples, reduce_examples) ==
    IF action_examples # <<>> /\ reduce_examples # <<>>
    THEN Classification("InsufficientLookahead",
                        action_examples[Len(action_examples)],
                        reduce_examples[Len(reduce_examples)], "", NoSymbol)
    ELSE Naive

\* The pair of line 408 with its sides exchanged.
Fallback_Swapped(action_examples, reduce_examples) ==
    IF action_examples # <<>> /\ reduce_examples # <<>>
    THEN Classification("InsufficientLookahead", reduce_examples[1],
                        action_examples[1], "", NoSymbol)
    ELSE Naive

Fallback(action_examples, reduce_examples) ==
    IF action_examples # <<>> /\ reduce_examples # <<>>
    THEN Classification("InsufficientLookahead", action_examples[1],
                        reduce_examples[1], "", NoSymbol)
    ELSE Naive

ClassifyTiers(grammar, lookahead, conflict, action_examples, reduce_examples) ==
    LET ambiguity == try_classify_ambiguity(lookahead, conflict,
                                            action_examples, reduce_examples)
        inline == try_classify_inline(grammar, action_examples, reduce_examples)
    IN IF ambiguity # None THEN ambiguity
       ELSE IF inline # None THEN inline
       ELSE Fallback(action_examples, reduce_examples)

(***************************************************************************)
(* The message builders, lines 116-361.  A Message is kept as the document *)
(* the builder calls assemble: the span it is attached to, the heading,    *)
(* the symbol list of the body, the example pictures in the order pushed,  *)
(* the items listed (naive only), the values mentioned in the prose and    *)
(* the closing advice.  Example::to_symbol_list(n) shows the first n       *)
(* symbols; Example::into_picture renders the whole example.               *)
(***************************************************************************)
Message(span, heading, symbols, pictures, items, mentions, closing) ==
    [span |-> span, heading |-> heading, symbols |-> symbols,
     pictures |-> pictures, items |-> items, mentions |-> mentions,
     closing |-> closing]

PanicMessage == Message(NoProduction, "panic", <<>>, <<>>, <<>>, <<>>, "")

to_symbol_list(example, length) == SubSeq(example.symbols, 1, length)

\* Lines 116-142 without the section of lines 138-141: the picture of the
\* shift example is not pushed.
report_error_ambiguity_core_OnePicture(conflict, shift, reduce, mentions, closing) ==
    Message(conflict.production, "Ambiguous grammar detected",
            to_symbol_list(reduce, Len(reduce.symbols)),
            <<reduce>>, <<>>, mentions, closing)

\* Lines 116-142.
report_error_ambiguity_core(conflict, shift, reduce, mentions, closing) ==
    Message(conflict.production, "Ambiguous grammar detected",
            to_symbol_list(reduce, Len(reduce.symbols)),
            <<reduce, shift>>, <<>>, mentions, closing)

\* Lines 144-155.
report_error_ambiguity(conflict, shift, reduce) ==
    report_error_ambiguity_core(conflict, shift, reduce, <<>>, "ambiguous")

\* Lines 157-173.
report_error_precedence(conflict, shift, reduce, nonterminal) ==
    report_error_ambiguity_core(conflict, shift, reduce,
                                <<Nonterminal(nonterminal)>>, "precedence")

\* Lines 175-252.  Line 243 reads reduce.reductions[0] unconditionally.
NotLr1CorePanics(reduce) == reduce.reductions = <<>>

\* The comparison of line 192 as `>`: on equal cursors the reduce example
\* is the one listed.
report_error_not_lr1_core_ReduceOnTie(lookahead, conflict, action, reduce, mentions, closing) ==
    IF NotLr1CorePanics(reduce) THEN PanicMessage
    ELSE Message(conflict.production, "Local ambiguity detected",
                 IF action.cursor > reduce.cursor
                 THEN to_symbol_list(action, action.cursor)
                 ELSE to_symbol_list(reduce, reduce.cursor),
                 <<action, reduce>>, <<>>,
                 (IF lookahead.kind = "Terminal" THEN <<lookahead>> ELSE <<>>)
                 \o (IF conflict.action.kind = "Reduce"
                     THEN <<Nonterminal(conflict.action.production.nonterminal)>>
                     ELSE <<>>)
                 \o <<Nonterminal(reduce.reductions[1].nonterminal)>>
                 \o mentions,
                 closing)

report_error_not_lr1_core(lookahead, conflict, action, reduce, mentions, closing) ==
    IF NotLr1CorePanics(reduce) THEN PanicMessage
    ELSE Message(conflict.production, "Local ambiguity detected",
                 IF action.cursor >= reduce.cursor
                 THEN to_symbol_list(action, action.cursor)
                 ELSE to_symbol_list(reduce, reduce.cursor),
                 <<action, reduce>>, <<>>,
                 (IF lookahead.kind = "Terminal" THEN <<lookahead>> ELSE <<>>)
                 \o (IF conflict.action.kind = "Reduce"
                     THEN <<Nonterminal(conflict.action.production.nonterminal)>>
                     ELSE <<>>)
                 \o <<Nonterminal(reduce.reductions[1].nonterminal)>>
                 \o mentions,
                 closing)

\* Lines 254-277.
report_error_suggest_inline(lookahead, conflict, shift, reduce, nonterminal) ==
    report_error_not_lr1_core(lookahead, conflict, shift, reduce,
                              <<Nonterminal(nonterminal)>>, "inline")

\* Lines 279-307.
report_error_suggest_question(lookahead, conflict, shift, reduce, nonterminal, symbol) ==
    report_error_not_lr1_core(lookahead, conflict, shift, reduce,
                              <<Nonterminal(nonterminal), symbol,
                                Nonterminal(nonterminal)>>, "question")

\* Lines 309-323.
report_error_insufficient_lookahead(lookahead, conflict, action, reduce) ==
    report_error_not_lr1_core(lookahead, conflict, action, reduce, <<>>, "lr1")

\* Lines 327-361 with line 340 reading the items of the first state.
report_error_naive_FirstState(states, lookahead, conflict) ==
    Message(conflict.production, "Conflict detected", <<>>, <<>>,
            states[1].items,
            <<lookahead, Nonterminal(conflict.production.nonterminal)>>
            \o (IF conflict.action.kind = "Reduce"
                THEN <<Nonterminal(conflict.action.production.nonterminal)>>
                ELSE <<>>),
            "naive")

\* Lines 327-361.
report_error_naive(states, lookahead, conflict) ==
    Message(conflict.production, "Conflict detected", <<>>, <<>>,
            states[conflict.state + 1].items,
            <<lookahead, Nonterminal(conflict.production.nonterminal)>>
            \o (IF conflict.action.kind = "Reduce"
                THEN <<Nonterminal(conflict.action.production.nonterminal)>>
                ELSE <<>>),
            "naive")

\* The dispatch with the arm of InsufficientLookahead sent to the naive
\* builder.
Dispatch_FallbackToNaive(states, lookahead, conflict, c) ==
    CASE c.kind = "Ambiguity" ->
            report_error_ambiguity(conflict, c.action, c.reduce)
      [] c.kind = "Precedence" ->
            report_error_precedence(conflict, c.action, c.reduce, c.nonterminal)
      [] c.kind = "SuggestInline" ->
            report_error_suggest_inline(lookahead, conflict, c.action, c.reduce,
                                        c.nonterminal)
      [] c.kind = "SuggestQuestion" ->
            report_error_suggest_question(lookahead, conflict, c.action, c.reduce,
                                          c.nonterminal, c.symbol)
      [] c.kind = "InsufficientLookahead" ->
            report_error_naive(states, lookahead, conflict)
      [] c.kind = "Naive" ->
            report_error_naive(states, lookahead, conflict)

\* report_error, lines 88-113: the dispatch on the classification.
Dispatch(states, lookahead, conflict, c) ==
    CASE c.kind = "Ambiguity" ->
            report_error_ambiguity(conflict, c.action, c.reduce)
      [] c.kind = "Precedence" ->
            report_error_precedence(conflict, c.action, c.reduce, c.nonterminal)
      [] c.kind = "SuggestInline" ->
            report_error_suggest_inline(lookahead, conflict, c.action, c.reduce,
                                        c.nonterminal)
      [] c.kind = "SuggestQuestion" ->
            report_error_suggest_question(lookahead, conflict, c.action, c.reduce,
                                          c.nonterminal, c.symbol)
      [] c.kind = "InsufficientLookahead" ->
            report_error_insufficient_lookahead(lookahead, conflict, c.action,
                                                c.reduce)
      [] c.kind = "Naive" ->
            report_error_naive(states, lookahead, conflict)

(***************************************************************************)
(* Bounds of the model.                                                    *)
(***************************************************************************)
\* States of the automaton.
NumStates == 2

\* Conflicts registered on the automaton of a pass over several conflicts.
MaxConflicts == 3

\* Examples one Tracer backtrace yields.
MaxExamples == 2

\* Examples the Tracer yields during one pass, over all its backtraces.
MaxYield == 4

\* Workers the conflicts are distributed over.
NumWorkers == 2

(***************************************************************************)
(* The state: the inputs of report_error (grammar, automaton, and what the *)
(* Tracer finds in that automaton), the progress of report_errors, and the *)
(* locals of the report_error / classify call under way.                   *)
(***************************************************************************)
VARIABLES
    grammar,          \* Grammar::productions_for, nonterminal -> productions
    states,           \* the automaton: index, items, conflicts by lookahead
    registered,       \* the order in which the conflicts were registered
    key_order,        \* iteration order of the Map keys that are lookaheads
    item_order,       \* iteration order of the Map keys that are LR(0) items
    traces,           \* the examples the backtraces of this automaton hold
    yielded,          \* examples the Tracer has yielded during this pass
    pc,               \* "start", "iterating", "dispatch", "returned", "panicked"
    position,         \* conflicts the iterator of report_errors has passed
    messages,         \* the Vec<Message> being collected
    returned,         \* what report_errors returned
    lookahead,        \* report_error's argument
    conflict,         \* report_error's argument
    tracer_calls,     \* the backtraces classify asked for
    action_traced,    \* the action examples as gathered, before the sort
    reduce_traced,    \* the reduce examples as gathered, before the sort
    action_examples,  \* the action examples, sorted
    reduce_examples,  \* the reduce examples, sorted
    classification,   \* what classify returned
    working,          \* per worker, the report_error call it is running
    slots,            \* per conflict, the Message a worker produced for it
    input,            \* the &str a __Matcher was constructed on
    text,             \* __Matcher.text, the input not yet consumed
    consumed,         \* __Matcher.consumed, a byte offset into the input
    history           \* per call of next, the fields before and what it gave

inputs == <<grammar, states, registered, key_order, item_order, traces>>

locals ==
    <<lookahead, conflict, tracer_calls, action_traced, reduce_traced,
      action_examples, reduce_examples, classification>>

workers == <<working, slots>>

matcher == <<input, text, consumed, history>>

vars ==
    <<inputs, yielded, pc, position, messages, returned, locals, workers,
      matcher>>

(***************************************************************************)
(* Helpers on sequences.                                                   *)
(***************************************************************************)
SeqsUpTo(S, n) == UNION {[1..k -> S] : k \in 0..n}

Orderings(S) ==
    {p \in [1..Cardinality(S) -> S] : \A x \in S : \E i \in DOMAIN p : p[i] = x}

RECURSIVE Flatten(_)
Flatten(seqs) ==
    IF seqs = <<>> THEN <<>> ELSE Head(seqs) \o Flatten(Tail(seqs))

RECURSIVE Filter(_, _)
Filter(seq, keep) ==
    IF seq = <<>> THEN <<>>
    ELSE (IF Head(seq) \in keep THEN <<Head(seq)>> ELSE <<>>)
         \o Filter(Tail(seq), keep)

\* The keys of a Map in the order its iterator yields them.
KeysInOrder(order, keys) == Filter(order, keys)

(***************************************************************************)
(* report_errors, lines 71-81: the (lookahead, conflict) pairs in the      *)
(* order the nested flat_map yields them.                                  *)
(***************************************************************************)
\* The inner flat_map of line 77 keeping the first conflict of a key only.
PairsOfKey_FirstOnly(state, la) ==
    <<[lookahead |-> la, conflict |-> state.conflicts[la][1]]>>

PairsOfKey(state, la) ==
    [i \in 1..Len(state.conflicts[la]) |->
        [lookahead |-> la, conflict |-> state.conflicts[la][i]]]

PairsOfState(state, order) ==
    LET keys == KeysInOrder(order, DOMAIN state.conflicts)
    IN Flatten([k \in 1..Len(keys) |-> PairsOfKey(state, keys[k])])

\* The outer iteration of line 73 from the last state to the first.
ConflictPairs_Reversed(sts, order) ==
    Flatten([s \in 1..Len(sts) |-> PairsOfState(sts[Len(sts) + 1 - s], order)])

ConflictPairs(sts, order) ==
    Flatten([s \in 1..Len(sts) |-> PairsOfState(sts[s], order)])

(***************************************************************************)
(* conflicting_shift_items, lines 542-564, and the Item methods it calls.  *)
(***************************************************************************)
can_shift(item) == item.index < Len(item.production.symbols)

to_lr0(item) == [production |-> item.production, index |-> item.index]

\* The match of lines 549-552 without its EOF arm: EOF is looked for among
\* the items like any symbol.
ShiftItemsPanics_Never(la) == FALSE

ShiftItemsPanics(la) == la = EOF

\* The filters of lines 556-557 without the second: any item that can shift.
ShiftItemFilter_AnySymbol(item, la) == can_shift(item)

ShiftItemFilter(item, la) ==
    /\ can_shift(item)
    /\ item.production.symbols[item.index + 1] = Terminal(la.id)

conflicting_shift_items(state, la) ==
    LET kept == {i \in DOMAIN state.items : ShiftItemFilter(state.items[i], la)}
        keys == {to_lr0(state.items[i]) : i \in kept}
    IN [key \in keys |->
          {state.items[i].lookahead : i \in {j \in kept : to_lr0(state.items[j]) = key}}]

(***************************************************************************)
(* shift_examples, lines 506-524, and reduce_examples, lines 526-540.  The *)
(* Tracer is external: a backtrace yields some list of up to MaxExamples   *)
(* of the examples the automaton holds.  A gathering is the list returned  *)
(* together with the backtraces asked for.                                 *)
(***************************************************************************)
TraceLists(exs) == SeqsUpTo(exs, MaxExamples)

ShiftCall(state_index, key) ==
    [kind |-> "shift", state |-> state_index, item |-> key]

ReduceCall(state_index, production, la) ==
    [kind |-> "reduce", state |-> state_index,
     item |-> Item(production, Len(production.symbols), la)]

gather_shift_examples(state, la, c, order, exs) ==
    LET keys == KeysInOrder(order, DOMAIN conflicting_shift_items(state, la))
    IN {[examples |-> Flatten([k \in 1..Len(keys) |-> found[keys[k]]]),
         calls |-> [k \in 1..Len(keys) |-> ShiftCall(c.state, keys[k])]]
        : found \in [{keys[k] : k \in 1..Len(keys)} -> TraceLists(exs)]}

gather_reduce_examples(state_index, production, la, exs) ==
    {[examples |-> found,
      calls |-> <<ReduceCall(state_index, production, la)>>]
     : found \in TraceLists(exs)}

(***************************************************************************)
(* The grammars, automata and examples the pass is run on.                 *)
(***************************************************************************)
Plus == Terminal("+")

Star == Terminal("*")

TermA == Terminal("a")

TermB == Terminal("b")

E_Plus_E == Production("E", <<Nonterminal("E"), Plus, Nonterminal("E")>>)

E_Star_E == Production("E", <<Nonterminal("E"), Star, Nonterminal("E")>>)

F_Plus_E == Production("E", <<Nonterminal("F"), Plus, Nonterminal("E")>>)

E_Plus_F == Production("E", <<Nonterminal("E"), Plus, Nonterminal("F")>>)

E_Plus_E_E ==
    Production("E", <<Nonterminal("E"), Plus, Nonterminal("E"), Nonterminal("E")>>)

E_Plus == Production("E", <<Nonterminal("E"), Plus>>)

\* `F = E + E`: the T S T shape over a nonterminal that is not its own head.
F_Is_E_Plus_E == Production("F", <<Nonterminal("E"), Plus, Nonterminal("E")>>)

G_Is_A == Production("G", <<TermA>>)

Outer_Is_Inner_B == Production("Outer", <<Nonterminal("Inner"), TermB>>)

ConflictProductions ==
    {E_Plus_E, E_Star_E, F_Plus_E, E_Plus_F, E_Plus_E_E, E_Plus, F_Is_E_Plus_E}

Inner(symbols) == Production("Inner", symbols)

\* `Inner = () | a`, the shape of an optional.
OptionalInner == <<Inner(<<>>), Inner(<<TermA>>)>>

InnerShapes ==
    {OptionalInner,
     <<Inner(<<TermB>>), Inner(<<>>)>>,
     <<Inner(<<TermA>>)>>,
     <<Inner(<<>>), Inner(<<TermA>>), Inner(<<TermB>>)>>,
     <<Inner(<<TermA>>), Inner(<<TermB>>)>>,
     <<Inner(<<>>), Inner(<<TermA, TermB>>)>>,
     <<Inner(<<>>), Inner(<<>>)>>}

GrammarWith(inner) ==
    [nt \in {"E", "F", "G", "Inner", "Outer"} |->
        CASE nt = "E" -> <<E_Plus_E, E_Star_E, F_Plus_E, E_Plus_F, E_Plus_E_E, E_Plus>>
          [] nt = "F" -> <<F_Is_E_Plus_E>>
          [] nt = "G" -> <<G_Is_A>>
          [] nt = "Inner" -> inner
          [] nt = "Outer" -> <<Outer_Is_Inner_B>>]

\* State 0 holds one LR(0) item that shifts `+`, state 1 holds two.
ItemsOf(state_index) ==
    IF state_index = 0
    THEN <<Item(E_Plus_E, 1, Plus), Item(E_Plus_E, 1, EOF),
           Item(E_Plus_E, 3, Plus), Item(G_Is_A, 0, Plus)>>
    ELSE <<Item(F_Plus_E, 1, Plus), Item(E_Plus_E, 1, Plus),
           Item(E_Plus_E, 1, Star), Item(E_Star_E, 3, Star)>>

\* The upstream table construction: conflicts are pushed, in the order
\* registered, on the Vec their state keeps for their lookahead.
RECURSIVE RegisteredOn(_, _, _)
RegisteredOn(log, state_index, la) ==
    IF log = <<>> THEN <<>>
    ELSE (IF Head(log).state = state_index /\ Head(log).lookahead = la
          THEN <<Head(log).conflict>> ELSE <<>>)
         \o RegisteredOn(Tail(log), state_index, la)

StatesOf(log) ==
    [s \in 1..NumStates |->
        [index |-> s - 1,
         items |-> ItemsOf(s - 1),
         conflicts |->
            [la \in {log[i].lookahead : i \in {j \in DOMAIN log : log[j].state = s - 1}}
                |-> RegisteredOn(log, s - 1, la)]]]

Registration(state_index, la, production, action) ==
    [state |-> state_index, lookahead |-> la,
     conflict |-> Conflict(state_index, production, action)]

\* Examples over the symbols a, b; Inner and Outer are the nonterminals
\* reduced.
Ex(symbols, cursor, reductions) == Example(symbols, cursor, reductions)

InnerOuter(inner_end, outer_end) ==
    <<Reduction("Inner", 0, inner_end), Reduction("Outer", 0, outer_end)>>

\* Examples telling apart the pairs the ambiguity tier keeps: equal and
\* unequal symbols, equal and unequal cursors, zero to two symbols.
AmbiguityTraces ==
    {Ex(<<>>, 0, <<>>),
     Ex(<<TermA>>, 1, <<>>),
     Ex(<<TermA>>, 0, <<Reduction("E", 0, 1)>>),
     Ex(<<TermB>>, 1, <<>>),
     Ex(<<TermA, TermB>>, 1, <<Reduction("E", 0, 2)>>)}

\* Examples telling apart the pairs the inline tier keeps: two reductions
\* of equal and of different nonterminals, equal and unequal suffixes,
\* Inner reduced before Outer and Outer before Inner.
InlineTraces ==
    {Ex(<<TermA, TermB>>, 1, InnerOuter(1, 2)),
     Ex(<<TermB>>, 0, InnerOuter(0, 1)),
     Ex(<<TermB, TermA>>, 1, InnerOuter(1, 2)),
     Ex(<<TermA, TermB>>, 2,
        <<Reduction("Inner", 0, 1), Reduction("Inner", 0, 2)>>),
     Ex(<<TermA, TermB>>, 1,
        <<Reduction("Outer", 0, 1), Reduction("Inner", 0, 2)>>)}

\* Examples at the edges of the inline tier: one and three reductions, a
\* first reduction that ends with the symbols, and one that ends past them.
SliceTraces ==
    {Ex(<<TermA>>, 0, <<Reduction("Inner", 0, 1)>>),
     Ex(<<TermA, TermB>>, 1, InnerOuter(1, 2)),
     Ex(<<TermA, TermA>>, 1,
        <<Reduction("Outer", 0, 2), Reduction("Inner", 1, 2)>>),
     Ex(<<TermA>>, 1, InnerOuter(2, 1)),
     Ex(<<TermA, TermB>>, 1,
        <<Reduction("Inner", 0, 1), Reduction("Outer", 0, 2),
          Reduction("E", 0, 2)>>)}

PassTraces == {Ex(<<TermA>>, 1, <<Reduction("E", 0, 1)>>)}

(***************************************************************************)
(* The generated lexer, mod __intern_token of loc_issue_90.rs.  A str is   *)
(* a sequence of chars and a char is its code point; the offsets and the   *)
(* lengths of the code count bytes of the UTF-8 encoding.                  *)
(***************************************************************************)
MaxInput == 3

MaxCalls == 4

\* The chars the inputs are made of: ' ', '#', '&', ']', 'a', and the
\* two-byte U+00A0 (a space) and U+00AA (a letter).
Chars == {32, 35, 38, 93, 97, 160, 170}

len_utf8(ch) ==
    IF ch < 128 THEN 1 ELSE IF ch < 2048 THEN 2 ELSE IF ch < 65536 THEN 3 ELSE 4

\* str::len
RECURSIVE str_len(_)
str_len(s) == IF s = <<>> THEN 0 ELSE len_utf8(Head(s)) + str_len(Tail(s))

\* char::is_whitespace, the code points with the White_Space property
is_whitespace(ch) ==
    \/ ch \in 9..13
    \/ ch \in {32, 133, 160, 5760, 8232, 8233, 8239, 8287, 12288}
    \/ ch \in 8192..8202

RECURSIVE trim_left(_)
trim_left(s) ==
    IF s # <<>> /\ is_whitespace(Head(s)) THEN trim_left(Tail(s)) ELSE s

is_char_boundary(s, n) == \E k \in 0..Len(s) : str_len(SubSeq(s, 1, k)) = n

\* The chars of s before byte n, for n a char boundary of s
CharsBefore(s, n) == CHOOSE k \in 0..Len(s) : str_len(SubSeq(s, 1, k)) = n

\* The arms of states 0, 5 and 9 that record token 6, those of them for
\* code points below U+00C0.
Word(ch) ==
    \/ ch \in 48..57
    \/ ch \in 65..90
    \/ ch = 95
    \/ ch \in 97..122
    \/ ch \in {170, 181, 186}

NoArm == [token |-> 0, state |-> 0, taken |-> FALSE]

ArmTo(token, state) == [token |-> token, state |-> state, taken |-> TRUE]

\* The arm of __tokenize a char selects in a state; NoArm is the default
\* arm, which returns __current_match.
Arm(state, ch) ==
    CASE state = 0 ->
            CASE ch = 38 -> ArmTo(0, 1)
              [] ch = 40 -> ArmTo(1, 2)
              [] ch = 41 -> ArmTo(2, 3)
              [] ch = 42 -> ArmTo(3, 4)
              [] ch = 91 -> ArmTo(4, 6)
              [] ch = 93 -> ArmTo(5, 7)
              [] Word(ch) -> ArmTo(6, 5)
              [] OTHER -> NoArm
      [] state \in {5, 9} -> IF Word(ch) THEN ArmTo(6, 9) ELSE NoArm
      [] OTHER -> NoArm

NoMatch == [some |-> FALSE, index |-> 0, length |-> 0]

SomeMatch(index, length) == [some |-> TRUE, index |-> index, length |-> length]

\* The loop of __tokenize: i is the position of __chars in the text, at
\* the byte offset __index.
RECURSIVE TokenizeLoop(_, _, _, _, _)
TokenizeLoop(s, i, __index, __current_match, __current_state) ==
    IF i > Len(s)
    THEN __current_match
    ELSE LET arm == Arm(__current_state, s[i])
             end == __index + len_utf8(s[i])
         IN IF arm.taken
            THEN TokenizeLoop(s, i + 1, end, SomeMatch(arm.token, end),
                              arm.state)
            ELSE __current_match

__tokenize(s) == TokenizeLoop(s, 1, 0, NoMatch, 0)

ItemNone == [kind |-> "None"]

ItemOk(start, index, slice, end) ==
    [kind |-> "Ok", start |-> start, index |-> index, slice |-> slice,
     end |-> end]

InvalidToken(location) == [kind |-> "InvalidToken", location |-> location]

SlicePanic == [kind |-> "panic"]

Self(t, c) == [text |-> t, consumed |-> c]

Gives(self, item) == [self |-> self, item |-> item]

next_DropsWhitespace(self) ==
    LET __text == trim_left(self.text)
        __whitespace == str_len(self.text) - str_len(__text)
        __start_offset == self.consumed + __whitespace
        found == __tokenize(__text)
    IN IF __text = <<>>
       THEN Gives(Self(__text, __start_offset), ItemNone)
       ELSE IF ~found.some
       THEN Gives(self, InvalidToken(__start_offset))
       ELSE IF ~is_char_boundary(__text, found.length)
       THEN Gives(self, SlicePanic)
       ELSE LET k == CharsBefore(__text, found.length)
            IN Gives(Self(SubSeq(__text, k + 1, Len(__text)),
                          self.consumed + found.length),
                     ItemOk(__start_offset, found.index, SubSeq(__text, 1, k),
                            __start_offset + found.length))

next_TrimsOnError(self) ==
    LET __text == trim_left(self.text)
        __whitespace == str_len(self.text) - str_len(__text)
        __start_offset == self.consumed + __whitespace
        found == __tokenize(__text)
    IN IF __text = <<>>
       THEN Gives(Self(__text, __start_offset), ItemNone)
       ELSE IF ~found.some
       THEN Gives(Self(__text, __start_offset), InvalidToken(__start_offset))
       ELSE IF ~is_char_boundary(__text, found.length)
       THEN Gives(self, SlicePanic)
       ELSE LET k == CharsBefore(__text, found.length)
            IN Gives(Self(SubSeq(__text, k + 1, Len(__text)),
                          __start_offset + found.length),
                     ItemOk(__start_offset, found.index, SubSeq(__text, 1, k),
                            __start_offset + found.length))

\* Iterator::next of __Matcher: the matcher it leaves and the item it
\* returns.  Slicing a str off a char boundary panics.
next(self) ==
    LET __text == trim_left(self.text)
        __whitespace == str_len(self.text) - str_len(__text)
        __start_offset == self.consumed + __whitespace
        found == __tokenize(__text)
    IN IF __text = <<>>
       THEN Gives(Self(__text, __start_offset), ItemNone)
       ELSE IF ~found.some
       THEN Gives(self, InvalidToken(__start_offset))
       ELSE IF ~is_char_boundary(__text, found.length)
       THEN Gives(self, SlicePanic)
       ELSE LET k == CharsBefore(__text, found.length)
            IN Gives(Self(SubSeq(__text, k + 1, Len(__text)),
                          __start_offset + found.length),
                     ItemOk(__start_offset, found.index, SubSeq(__text, 1, k),
                            __start_offset + found.length))

\* __Matcher::new
__Matcher_new(s) ==
    /\ input = s
    /\ text = s
    /\ consumed = 0
    /\ history = <<>>

\* The last call of next panicked.
Unwound == history # <<>> /\ history[Len(history)].item = SlicePanic

\* A call of next on the matcher; a panic unwinds and ends the calls.
CallNext ==
    /\ Len(history) < MaxCalls
    /\ ~Unwound
    /\ \E gives \in {next(Self(text, consumed))} :
          /\ text' = gives.self.text
          /\ consumed' = gives.self.consumed
          /\ history' = Append(history,
                               [text |-> text, consumed |-> consumed,
                                item |-> gives.item])
    /\ UNCHANGED <<input, inputs, yielded, pc, position, messages, returned,
                   locals, workers>>

Strs == UNION {[1..n -> Chars] : n \in 0..MaxInput}

(***************************************************************************)
(* The initial states.                                                     *)
(***************************************************************************)
NoList == [some |-> FALSE, list |-> <<>>]

SomeList(list) == [some |-> TRUE, list |-> list]

NoConflict == Conflict(0, NoProduction, Shift(0))

\* A worker that runs no report_error call.
Idle ==
    [stage |-> "idle", index |-> 0, lookahead |-> NoSymbol, conflict |-> NoConflict,
     classification |-> None]

InitCall ==
    /\ pc = "start"
    /\ yielded = 0
    /\ position = 0
    /\ messages = <<>>
    /\ returned = NoList
    /\ lookahead = NoSymbol
    /\ conflict = NoConflict
    /\ tracer_calls = <<>>
    /\ action_traced = <<>>
    /\ reduce_traced = <<>>
    /\ action_examples = <<>>
    /\ reduce_examples = <<>>
    /\ classification = None
    /\ working = [w \in 1..NumWorkers |-> Idle]
    /\ slots = <<>>

InitAutomaton(log) ==
    /\ registered = log
    /\ states = StatesOf(log)
    /\ key_order \in Orderings({log[i].lookahead : i \in DOMAIN log})
    /\ item_order \in
         Orderings(UNION {DOMAIN conflicting_shift_items(
                              StatesOf(log)[log[i].state + 1], Plus)
                          : i \in DOMAIN log})

\* One conflict over examples that exercise the first tier: a shift of `+`
\* against every production, and against E = E + E a reduce on `+` and
\* either action at the end of input.
InitAmbiguity ==
    /\ \E on \in ({Plus} \X ConflictProductions \X {Shift(1)})
                  \cup ({Plus, EOF} \X {E_Plus_E} \X {Reduce(G_Is_A)})
                  \cup {<<EOF, E_Plus_E, Shift(1)>>} :
            InitAutomaton(<<Registration(0, on[1], on[2], on[3])>>)
    /\ grammar = GrammarWith(OptionalInner)
    /\ traces = AmbiguityTraces

\* One conflict, over examples that exercise the second tier: a shift for
\* every shape of the productions of Inner, and a reduce at the end of
\* input.
InitInline ==
    /\ \E on \in ({<<Plus, Shift(1)>>} \X InnerShapes)
                  \cup {<<<<EOF, Reduce(G_Is_A)>>, OptionalInner>>} :
          /\ InitAutomaton(<<Registration(0, on[1][1], E_Plus_E, on[1][2])>>)
          /\ grammar = GrammarWith(on[2])
    /\ traces = InlineTraces

\* One conflict, over examples at the edges of the second tier.
InitSlices ==
    /\ InitAutomaton(<<Registration(0, Plus, E_Plus_E, Shift(1))>>)
    /\ grammar = GrammarWith(OptionalInner)
    /\ traces = SliceTraces

\* The n-th conflict registered reduces a production of n symbols, so that
\* the span of a message tells which conflict it is about.
RegisteredProduction(n) == Production("E", [i \in 1..n |-> TermA])

\* The conflicts registered in turn: on `+` and at the end of input a
\* shift, on `*` a reduce.
RegistrationLog(where) ==
    [n \in DOMAIN where |->
        Registration(where[n][1], where[n][2], RegisteredProduction(n),
                     IF where[n][2] = Star THEN Reduce(G_Is_A) ELSE Shift(1))]

\* Up to MaxConflicts conflicts registered in any order on any state, for
\* which the Tracer finds no example.
InitPass ==
    /\ \E k \in 0..MaxConflicts :
         \E where \in [1..k -> (0..(NumStates - 1)) \X {Plus, Star}] :
            InitAutomaton(RegistrationLog(where))
    /\ grammar = GrammarWith(OptionalInner)
    /\ traces = {}

\* Two conflicts, either of which may be a shift registered at the end of
\* input, for which the Tracer may find an example.
InitMalformed ==
    /\ \E where \in [1..2 -> (0..(NumStates - 1)) \X {Plus, Star, EOF}] :
            InitAutomaton(RegistrationLog(where))
    /\ grammar = GrammarWith(OptionalInner)
    /\ traces = PassTraces

Init ==
    /\ InitCall
    /\ __Matcher_new(<<>>)
    /\ InitAmbiguity \/ InitInline \/ InitSlices \/ InitPass \/ InitMalformed

(***************************************************************************)
(* The pass.                                                               *)
(***************************************************************************)
\* report_error (lines 16-22) builds the context and starts report_errors.
Start ==
    /\ pc = "start"
    /\ pc' = "iterating"
    /\ UNCHANGED <<inputs, yielded, position, messages, returned, locals, workers, matcher>>

\* classify, lines 370-375: the examples of the conflicting action.
ActionGatherings(la, c) ==
    IF c.action.kind = "Shift"
    THEN gather_shift_examples(states[c.state + 1], la, c, item_order, traces)
    ELSE gather_reduce_examples(c.state, c.action.production, la, traces)

\* The panic of line 550 reached whatever the action of the conflict.
GatherPanics_AnyAction(la, c) == ShiftItemsPanics(la)

\* shift_examples reaches the panic of line 550 before any backtrace.
GatherPanics(la, c) == c.action.kind = "Shift" /\ ShiftItemsPanics(la)

\* The iterator of report_errors yields the next conflict and report_error
\* calls classify on it (lines 363-414): gather, sort, classify.
Classify ==
    /\ pc = "iterating"
    /\ position < Len(ConflictPairs(states, key_order))
    /\ \E pair \in {ConflictPairs(states, key_order)[position + 1]} :
       LET la == pair.lookahead
           c == pair.conflict
       IN /\ lookahead' = la
          /\ conflict' = c
          /\ IF GatherPanics(la, c)
             THEN /\ pc' = "panicked"
                  /\ messages' = <<>>
                  /\ classification' = Panic("can't shift EOF")
                  /\ tracer_calls' = <<>>
                  /\ action_traced' = <<>>
                  /\ reduce_traced' = <<>>
                  /\ action_examples' = <<>>
                  /\ reduce_examples' = <<>>
                  /\ UNCHANGED yielded
             ELSE \E a \in ActionGatherings(la, c),
                     r \in gather_reduce_examples(c.state, c.production, la, traces) :
                    /\ yielded + Len(a.examples) + Len(r.examples) <= MaxYield
                    /\ yielded' = yielded + Len(a.examples) + Len(r.examples)
                    /\ tracer_calls' = a.calls \o r.calls
                    /\ action_traced' = a.examples
                    /\ reduce_traced' = r.examples
                    /\ action_examples' = SortByLen(a.examples)
                    /\ reduce_examples' = SortByLen(r.examples)
                    /\ classification' =
                          ClassifyTiers(grammar, la, c, SortByLen(a.examples),
                                        SortByLen(r.examples))
                    /\ pc' = IF classification'.kind = "Panic"
                             THEN "panicked" ELSE "dispatch"
                    /\ messages' = IF classification'.kind = "Panic"
                                   THEN <<>> ELSE messages
    /\ UNCHANGED <<inputs, position, returned, workers, matcher>>

\* report_error, lines 88-113: the classification is dispatched to its
\* builder and the message joins the list; classify's lists are gone.
BuildMessage ==
    /\ pc = "dispatch"
    /\ LET message == Dispatch(states, lookahead, conflict, classification)
       IN IF message = PanicMessage
          THEN /\ pc' = "panicked"
               /\ messages' = <<>>
               /\ UNCHANGED position
          ELSE /\ pc' = "iterating"
               /\ messages' = Append(messages, message)
               /\ position' = position + 1
    /\ tracer_calls' = <<>>
    /\ action_traced' = <<>>
    /\ reduce_traced' = <<>>
    /\ action_examples' = <<>>
    /\ reduce_examples' = <<>>
    /\ UNCHANGED <<inputs, yielded, returned, lookahead, conflict, classification,
                   workers, matcher>>

\* The pass taking the conflicts out of the states it has reported on.
Collect_TakingConflicts ==
    /\ pc = "iterating"
    /\ position = Len(ConflictPairs(states, key_order))
    /\ pc' = "returned"
    /\ returned' = SomeList(messages)
    /\ states' = [s \in DOMAIN states |->
                    [states[s] EXCEPT !.conflicts = <<>>]]
    /\ UNCHANGED <<grammar, registered, key_order, item_order, traces>>
    /\ UNCHANGED <<yielded, position, messages, locals, workers, matcher>>

\* report_errors, line 80: the iterator is exhausted and collect returns.
Collect ==
    /\ pc = "iterating"
    /\ position = Len(ConflictPairs(states, key_order))
    /\ pc' = "returned"
    /\ returned' = SomeList(messages)
    /\ UNCHANGED <<inputs, yielded, position, messages, locals, workers, matcher>>

Next == Start \/ Classify \/ BuildMessage \/ Collect

Spec == Init /\ [][Next]_vars

\* The examples of a pass, and one of a reduce that reduces nothing.
UnreducedTraces == PassTraces \cup {Ex(<<>>, 0, <<>>)}

\* One conflict on `+` or `*`, for which the Tracer may find an example
\* without reductions.
InitUnreduced ==
    /\ \E where \in [1..1 -> (0..(NumStates - 1)) \X {Plus, Star}] :
            InitAutomaton(RegistrationLog(where))
    /\ grammar = GrammarWith(OptionalInner)
    /\ traces = UnreducedTraces

InitFair ==
    /\ InitCall
    /\ __Matcher_new(<<>>)
    /\ InitMalformed \/ InitUnreduced

\* The pass is a sequential computation: while a step is possible, one is
\* taken.
FairSpec == InitFair /\ [][Next]_vars /\ WF_vars(Next)

(***************************************************************************)
(* The pass distributed over workers: each worker takes a conflict no      *)
(* other has taken and runs report_error (lines 83-114) on it, in any      *)
(* order and interleaved with the others; when every conflict has its      *)
(* Message the results are arranged by position in the iteration of        *)
(* report_errors (state index, then conflict order).  A worker that panics *)
(* aborts the pass.                                                        *)
(***************************************************************************)
Taken ==
    DOMAIN slots \cup {working[w].index : w \in {v \in DOMAIN working :
                                                    working[v].stage # "idle"}}

\* report_error, line 88: the worker calls classify on a conflict.
Take(w) ==
    /\ pc = "iterating"
    /\ working[w].stage = "idle"
    /\ \E index \in DOMAIN ConflictPairs(states, key_order) \ Taken :
         LET pair == ConflictPairs(states, key_order)[index]
             la == pair.lookahead
             c == pair.conflict
             call == [Idle EXCEPT !.index = index, !.lookahead = la, !.conflict = c]
         IN IF GatherPanics(la, c)
            THEN /\ pc' = "panicked"
                 /\ working' = [working EXCEPT ![w] =
                       [call EXCEPT !.stage = "panicked",
                                    !.classification = Panic("can't shift EOF")]]
                 /\ UNCHANGED yielded
            ELSE \E a \in ActionGatherings(la, c),
                    r \in gather_reduce_examples(c.state, c.production, la, traces) :
                   LET result == ClassifyTiers(grammar, la, c, SortByLen(a.examples),
                                               SortByLen(r.examples))
                       stage == IF result.kind = "Panic" THEN "panicked"
                                ELSE "classified"
                   IN /\ yielded + Len(a.examples) + Len(r.examples) <= MaxYield
                      /\ yielded' = yielded + Len(a.examples) + Len(r.examples)
                      /\ working' = [working EXCEPT ![w] =
                            [call EXCEPT !.stage = stage,
                                         !.classification = result]]
                      /\ pc' = IF stage = "panicked" THEN "panicked" ELSE pc
    /\ UNCHANGED <<inputs, position, messages, returned, locals, slots,
                   matcher>>

\* The Message of a conflict reported after another one says so: the
\* builders share a note of what has been reported.
Built_AfterOthers(call) ==
    LET message == Dispatch(states, call.lookahead, call.conflict,
                            call.classification)
    IN IF slots = <<>> \/ message = PanicMessage THEN message
       ELSE [message EXCEPT !.closing = "continued"]

\* The match of report_error on what classify returned to the worker.
Built(call) ==
    Dispatch(states, call.lookahead, call.conflict, call.classification)

\* report_error, lines 88-113: the worker's classification is dispatched
\* to its builder and the Message is kept for the conflict.
Report(w) ==
    /\ pc = "iterating"
    /\ working[w].stage = "classified"
    /\ LET call == working[w]
           message == Built(call)
       IN IF message = PanicMessage
          THEN /\ pc' = "panicked"
               /\ working' = [working EXCEPT ![w].stage = "panicked"]
               /\ UNCHANGED slots
          ELSE /\ slots' = [i \in DOMAIN slots \cup {call.index} |->
                              IF i = call.index THEN message ELSE slots[i]]
               /\ working' = [working EXCEPT ![w] = Idle]
               /\ UNCHANGED pc
    /\ UNCHANGED <<inputs, yielded, position, messages, returned, locals,
                   matcher>>

EveryConflictReported ==
    DOMAIN slots = DOMAIN ConflictPairs(states, key_order)

\* The results arranged by state index, then conflict order.
Arrange ==
    /\ pc = "iterating"
    /\ EveryConflictReported
    /\ pc' = "returned"
    /\ returned' = SomeList([i \in 1..Cardinality(DOMAIN slots) |-> slots[i]])
    /\ UNCHANGED <<inputs, yielded, position, messages, locals, workers, matcher>>

\* MaxConflicts conflicts registered on the last state under two
\* lookaheads, for which the Tracer finds no example.
InitGrouped ==
    /\ \E where \in [1..MaxConflicts -> {NumStates - 1} \X {Plus, Star}] :
            InitAutomaton(RegistrationLog(where))
    /\ grammar = GrammarWith(OptionalInner)
    /\ traces = {}

InitWorkers ==
    /\ InitCall
    /\ __Matcher_new(<<>>)
    /\ InitMalformed \/ InitGrouped

NextWorkers ==
    \/ Start
    \/ \E w \in 1..NumWorkers : Take(w)
    \/ \E w \in 1..NumWorkers : Report(w)
    \/ Arrange

SpecWorkers == InitWorkers /\ [][NextWorkers]_vars

(***************************************************************************)
(* The lexer run on its own: a matcher is constructed on a str and next    *)
(* is called on it, while no pass runs.                                    *)
(***************************************************************************)
InitMatcher ==
    /\ InitCall
    /\ InitAutomaton(<<>>)
    /\ grammar = GrammarWith(OptionalInner)
    /\ traces = {}
    /\ \E s \in Strs : __Matcher_new(s)

NextMatcher == CallNext

SpecMatcher == InitMatcher /\ [][NextMatcher]_vars

(***************************************************************************)
(* Properties of the pass.                                                 *)
(***************************************************************************)
RECURSIVE SumLens(_, _)
SumLens(conflicts, keys) ==
    IF keys = {} THEN 0
    ELSE LET la == CHOOSE k \in keys : TRUE
         IN Len(conflicts[la]) + SumLens(conflicts, keys \ {la})

RECURSIVE ConflictCount(_, _)
ConflictCount(sts, n) ==
    IF n = 0 THEN 0
    ELSE SumLens(sts[n].conflicts, DOMAIN sts[n].conflicts) + ConflictCount(sts, n - 1)

\* The pass has classified a conflict and classify's lists are still live.
Gathered == tracer_calls # <<>>

\* C1: whenever report_errors returns, the list holds exactly one Message
\* per Conflict registered on any state: its length is the sum, over the
\* states and their lookahead keys, of the number of conflicts, and every
\* registered conflict has its one message; a pass that does not return
\* (it panicked, or is still running) has handed out no list at all.
C1_OneMessagePerConflict ==
    /\ returned.some <=> pc = "returned"
    /\ returned.some =>
          /\ Len(returned.list) = ConflictCount(states, Len(states))
          /\ Len(returned.list) = Len(registered)
          /\ \A n \in DOMAIN registered :
                Cardinality({i \in DOMAIN returned.list :
                    returned.list[i].span = registered[n].conflict.production}) = 1

C1_Witness ==
    /\ pc = "returned"
    /\ Len(returned.list) = 3
    /\ \E s \in DOMAIN states : Cardinality(DOMAIN states[s].conflicts) = 2
    /\ \E s \in DOMAIN states, la \in {Plus, Star} :
          la \in DOMAIN states[s].conflicts /\ Len(states[s].conflicts[la]) = 2

\* The registration a message is about: its span is the conflict's production.
RegistrationOf(message) ==
    CHOOSE n \in DOMAIN registered :
        registered[n].conflict.production = message.span

KeyRank(la) == CHOOSE k \in DOMAIN key_order : key_order[k] = la

\* C2, as claimed: the messages are ordered by ascending state index and,
\* within one state, in the order in which the conflicts were registered
\* on that state, whatever lookaheads they were registered under.
C2_RegistrationOrder ==
    pc = "returned" =>
        \A i, j \in DOMAIN returned.list :
            i < j =>
                LET a == registered[RegistrationOf(returned.list[i])]
                    b == registered[RegistrationOf(returned.list[j])]
                IN /\ a.state <= b.state
                   /\ a.state = b.state =>
                         RegistrationOf(returned.list[i])
                            < RegistrationOf(returned.list[j])

\* C2, amended: the messages are ordered by ascending state index; within
\* one state the conflicts of one lookahead are together, the lookaheads in
\* the order the conflicts Map iterates its keys; within one lookahead of
\* one state they are in the order registered.
C2_StateKeyRegistrationOrder ==
    pc = "returned" =>
        \A i, j \in DOMAIN returned.list :
            i < j =>
                LET a == registered[RegistrationOf(returned.list[i])]
                    b == registered[RegistrationOf(returned.list[j])]
                IN /\ a.state <= b.state
                   /\ a.state = b.state =>
                         KeyRank(a.lookahead) <= KeyRank(b.lookahead)
                   /\ (a.state = b.state /\ a.lookahead = b.lookahead) =>
                         RegistrationOf(returned.list[i])
                            < RegistrationOf(returned.list[j])

\* The conflicts of one state registered as l1, l2, l1.
C2_Witness ==
    /\ pc = "returned"
    /\ Len(returned.list) = 3
    /\ registered[1].state = registered[2].state
    /\ registered[2].state = registered[3].state
    /\ registered[1].lookahead = registered[3].lookahead
    /\ registered[1].lookahead # registered[2].lookahead

(***************************************************************************)
(* Properties of classify.                                                 *)
(***************************************************************************)
\* The invariant the Example type documents: the cursor lies within the
\* symbols and the reductions are ordered by start.
ExampleInvariant(e) ==
    /\ e.cursor <= Len(e.symbols)
    /\ \A i, j \in DOMAIN e.reductions :
          i < j => e.reductions[i].start <= e.reductions[j].start

ReductionsWithinSymbols(e) ==
    \A i \in DOMAIN e.reductions :
        /\ e.reductions[i].start <= e.reductions[i].end
        /\ e.reductions[i].end <= Len(e.symbols)

AllKeepInvariant(examples) ==
    \A i \in DOMAIN examples : ExampleInvariant(examples[i])

AllWithinSymbols(examples) ==
    \A i \in DOMAIN examples : ReductionsWithinSymbols(examples[i])

\* A conflict classify can be asked about: nothing is shifted on EOF.
WellFormedPair == ~(conflict.action.kind = "Shift" /\ lookahead = EOF)

Classified == classification # None

C4_ReportErrorNeverFails ==
    ~(pc = "panicked" /\ classification.kind \in Variants)

\* C5: if either gathered list is empty, classify returns Naive and does
\* not panic, whatever the other list contains.
C5_EmptyListIsNaive ==
    (Gathered /\ (action_traced = <<>> \/ reduce_traced = <<>>))
    => classification.kind = "Naive"

C5_Witness ==
    /\ Gathered
    /\ reduce_traced = <<>>
    /\ Len(action_traced) = 2
    /\ \E i \in DOMAIN action_traced : Len(action_traced[i].reductions) = 2
    /\ classification.kind = "Naive"

\* C6: classify returns Precedence only when the action is Shift, the
\* lookahead is a Terminal l and the reduce production is exactly
\* [Nonterminal(T), Terminal(l), Nonterminal(T)] with T its own
\* nonterminal; a reduce/reduce conflict is never Precedence.
C6_PrecedenceOnlyForOwnInfix ==
    classification.kind = "Precedence" =>
        /\ conflict.action.kind = "Shift"
        /\ conflict.action.kind # "Reduce"
        /\ lookahead.kind = "Terminal"
        /\ conflict.production.symbols =
              <<Nonterminal(conflict.production.nonterminal),
                Terminal(lookahead.id),
                Nonterminal(conflict.production.nonterminal)>>

C6_Witness ==
    /\ classification.kind = "Precedence"
    /\ conflict.production = E_Plus_E
    /\ lookahead = Plus

\* Some (action example, reduce example) pair has equal symbols and cursors.
SomeEqualPair(actions, reduces) ==
    \E i \in DOMAIN actions, j \in DOMAIN reduces :
        /\ actions[i].symbols = reduces[j].symbols
        /\ actions[i].cursor = reduces[j].cursor

InfixOfOwnHead(production, la) ==
    /\ la.kind = "Terminal"
    /\ Len(production.symbols) = 3
    /\ production.symbols[1].kind = "Nonterminal"
    /\ production.symbols[1].id = production.nonterminal
    /\ production.symbols[2] = la
    /\ production.symbols[3] = production.symbols[1]

\* C7: when some pair has equal symbols and equal cursors, the result is
\* Precedence naming the production's nonterminal if the action is Shift,
\* the lookahead a Terminal l and the production [N(T), T(l), N(T)] with T
\* its own head, and plain Ambiguity under any deviation.
C7_PrecedenceOrAmbiguity ==
    (Gathered /\ SomeEqualPair(action_traced, reduce_traced)) =>
        IF conflict.action.kind = "Shift"
           /\ InfixOfOwnHead(conflict.production, lookahead)
        THEN /\ classification.kind = "Precedence"
             /\ classification.nonterminal = conflict.production.nonterminal
        ELSE classification.kind = "Ambiguity"

\* The T S T shape over a nonterminal that is not the production's head.
C7_Witness ==
    /\ Gathered
    /\ SomeEqualPair(action_traced, reduce_traced)
    /\ classification.kind = "Ambiguity"
    /\ conflict.action.kind = "Shift"
    /\ lookahead = Plus
    /\ conflict.production = F_Is_E_Plus_E

\* C8: classify returns Ambiguity or Precedence if and only if some pair of
\* the product has equal symbols and equal cursors, whatever else holds of
\* the pairs; equal symbols with different cursors do not count.
C8_AmbiguityTierExact ==
    Gathered =>
        (classification.kind \in {"Ambiguity", "Precedence"}
         <=> \E i \in DOMAIN action_examples, j \in DOMAIN reduce_examples :
                /\ action_examples[i].symbols = reduce_examples[j].symbols
                /\ action_examples[i].cursor = reduce_examples[j].cursor)

\* The equal pair also meets every condition of the inline tier.
C8_Witness ==
    /\ Gathered
    /\ classification.kind = "Ambiguity"
    /\ Len(classification.action.reductions) = 2
    /\ classification.action = classification.reduce
    /\ classification.action.reductions[1].nonterminal
          # classification.action.reductions[2].nonterminal

\* What follows the end of the first reduction.
SuffixAfterFirstReduction(e) ==
    [i \in 1..(Len(e.symbols) - e.reductions[1].end) |->
        e.symbols[e.reductions[1].end + i]]

QualifiesForInline(action, reduce) ==
    /\ Len(action.reductions) = 2
    /\ Len(reduce.reductions) = 2
    /\ reduce.reductions[1].nonterminal # reduce.reductions[2].nonterminal
    /\ action.reductions[1].end <= Len(action.symbols)
    /\ reduce.reductions[1].end <= Len(reduce.symbols)
    /\ SuffixAfterFirstReduction(action) = SuffixAfterFirstReduction(reduce)

\* C9: when no pair has equal symbols and cursors, classify returns
\* SuggestInline or SuggestQuestion if and only if some pair has two
\* reductions in the action example, two reductions of different
\* nonterminals in the reduce example, and equal inner suffixes; nothing is
\* asked of the nonterminals of the action example.  The examples are
\* derivations: their reductions are sub-ranges of their symbols.
C9_InlineTierExact ==
    (/\ Gathered
     /\ AllWithinSymbols(action_traced)
     /\ AllWithinSymbols(reduce_traced)
     /\ ~SomeEqualPair(action_traced, reduce_traced))
    => /\ classification.kind \in Variants
       /\ classification.kind \in {"SuggestInline", "SuggestQuestion"}
            <=> \E i \in DOMAIN action_traced, j \in DOMAIN reduce_traced :
                   QualifiesForInline(action_traced[i], reduce_traced[j])

\* The action example cited reduces the same nonterminal twice.
C9_Witness ==
    /\ Gathered
    /\ classification.kind \in {"SuggestInline", "SuggestQuestion"}
    /\ classification.action.reductions[1].nonterminal
          = classification.action.reductions[2].nonterminal

\* One production is empty and the other has exactly one symbol.
OptionalShape(productions) ==
    /\ Len(productions) = 2
    /\ \E i, j \in {1, 2} :
          /\ i # j
          /\ Len(productions[i].symbols) = 0
          /\ Len(productions[j].symbols) = 1

TheOneSymbol(productions) ==
    LET j == CHOOSE i \in {1, 2} : Len(productions[i].symbols) = 1
    IN productions[j].symbols[1]

\* The pairs of the product, in its order, that qualify for the inline tier.
QualifyingPairs(actions, reduces) ==
    {k \in PairIndices(actions, reduces) :
        QualifiesForInline(PairAction(actions, reduces, k),
                           PairReduce(actions, reduces, k))}

\* C10: the inline tier cites the first qualifying pair, and with nt the
\* nonterminal of the first reduction of its reduce example, the result is
\* SuggestQuestion exactly when productions_for(nt) is one empty production
\* and one production of exactly one symbol, in either order, and it then
\* cites nt and that symbol; for every other shape the result is
\* SuggestInline citing nt.
C10_QuestionOnlyForOptional ==
    (Gathered /\ classification.kind \in {"SuggestInline", "SuggestQuestion"}) =>
        LET nt == classification.reduce.reductions[1].nonterminal
            hits == QualifyingPairs(action_examples, reduce_examples)
            first == CHOOSE k \in hits : \A h \in hits : k <= h
        IN /\ hits # {}
           /\ classification.action = PairAction(action_examples, reduce_examples, first)
           /\ classification.reduce = PairReduce(action_examples, reduce_examples, first)
           /\ classification.nonterminal = nt
           /\ IF OptionalShape(grammar[nt])
              THEN /\ classification.kind = "SuggestQuestion"
                   /\ classification.symbol = TheOneSymbol(grammar[nt])
              ELSE /\ classification.kind = "SuggestInline"
                   /\ classification.symbol = NoSymbol

\* The optional written as `Inner = b | ()`.
C10_Witness ==
    /\ Gathered
    /\ Cardinality(QualifyingPairs(action_examples, reduce_examples)) > 1
    /\ classification.kind = "SuggestQuestion"
    /\ classification.symbol = TermB
    /\ grammar["Inner"][2].symbols = <<>>

\* No example of the list has fewer symbols than e.
ShortestOf(e, examples) ==
    \A i \in DOMAIN examples : Len(e.symbols) <= Len(examples[i].symbols)

SomeInlinePair(actions, reduces) ==
    \E i \in DOMAIN actions, j \in DOMAIN reduces :
        QualifiesForInline(actions[i], reduces[j])

\* C11: if no pair qualifies for the ambiguity tier or the inline tier and
\* both lists are non-empty, classify returns InsufficientLookahead citing
\* element 0 of the sorted action list and element 0 of the sorted reduce
\* list, each a shortest example of what the Tracer returned.  The examples
\* are derivations: their reductions are sub-ranges of their symbols.
C11_FallbackCitesShortest ==
    (/\ Gathered
     /\ AllWithinSymbols(action_traced)
     /\ AllWithinSymbols(reduce_traced)
     /\ action_traced # <<>>
     /\ reduce_traced # <<>>
     /\ ~SomeEqualPair(action_traced, reduce_traced)
     /\ ~SomeInlinePair(action_traced, reduce_traced))
    => /\ classification.kind = "InsufficientLookahead"
       /\ classification.action = action_examples[1]
       /\ classification.reduce = reduce_examples[1]
       /\ ShortestOf(classification.action, action_traced)
       /\ ShortestOf(classification.reduce, reduce_traced)

\* The Tracer yielded the longer action example first, and the shorter one
\* is cited.
C11_Witness ==
    /\ Gathered
    /\ classification.kind = "InsufficientLookahead"
    /\ Len(action_traced) = 2
    /\ Len(action_traced[1].symbols) > Len(action_traced[2].symbols)
    /\ classification.action = action_traced[2]

(***************************************************************************)
(* Properties of the sort.                                                 *)
(***************************************************************************)
SortedByLen(examples) ==
    \A i \in 1..(Len(examples) - 1) :
        Len(examples[i].symbols) <= Len(examples[i + 1].symbols)

Occurrences(e, examples) == Cardinality({i \in DOMAIN examples : examples[i] = e})

\* Nothing dropped, nothing duplicated.
PermutationOf(sorted, gathered) ==
    /\ Len(sorted) = Len(gathered)
    /\ \A i \in DOMAIN gathered :
          Occurrences(gathered[i], sorted) = Occurrences(gathered[i], gathered)

\* C12: after gathering, action_examples and reduce_examples are sorted
\* ascending by symbol count, and each is a permutation of what the Tracer
\* returned.
C12_SortedPermutation ==
    Gathered =>
        /\ SortedByLen(action_examples)
        /\ SortedByLen(reduce_examples)
        /\ PermutationOf(action_examples, action_traced)
        /\ PermutationOf(reduce_examples, reduce_traced)

\* The Tracer yielded a longer action example before a shorter one, and
\* one reduce example.
C12_Witness ==
    /\ Gathered
    /\ Len(action_traced) = 2
    /\ Len(action_traced[1].symbols) > Len(action_traced[2].symbols)
    /\ action_examples = <<action_traced[2], action_traced[1]>>
    /\ Len(reduce_traced) = 1

(***************************************************************************)
(* Properties of the gathering.                                            *)
(***************************************************************************)
ExplicitPanic == classification = Panic("can't shift EOF")

\* C14: a conflict whose action is Shift under EOF panics in
\* conflicting_shift_items whatever the items of its state, before any
\* Tracer call; the pass is aborted with no classification, no message and
\* no list; and the panic! of line 550 is raised for nothing else.
C14_ShiftOnEOFFailsFast ==
    /\ (Classified /\ conflict.action.kind = "Shift" /\ lookahead = EOF)
          => /\ ExplicitPanic
             /\ pc = "panicked"
             /\ tracer_calls = <<>>
             /\ action_traced = <<>>
             /\ reduce_traced = <<>>
             /\ messages = <<>>
             /\ ~returned.some
    /\ ExplicitPanic => (conflict.action.kind = "Shift" /\ lookahead = EOF)

\* The pass is aborted after an earlier conflict had its message, in a state
\* that has items to shift.
C14_Witness ==
    /\ ExplicitPanic
    /\ pc = "panicked"
    /\ position > 0
    /\ conflict.state = 1

(***************************************************************************)
(* Properties of the pass as a whole.                                      *)
(***************************************************************************)
\* C15: the pass is read-only: no step of report_errors, a step that panics
\* included, changes the grammar or the states, their item sets and their
\* conflict records; only the example lists, the classification and the
\* messages are written.
C15_ReadOnly ==
    [][/\ grammar' = grammar
       /\ states' = states
       /\ \A s \in DOMAIN states :
             /\ states'[s].items = states[s].items
             /\ states'[s].conflicts = states[s].conflicts]_vars

\* A pass that panicked after an earlier message, and the states are as the
\* table construction left them.
C15_Witness ==
    /\ pc = "panicked"
    /\ position > 0
    /\ states = StatesOf(registered)
    /\ \E s \in DOMAIN states : DOMAIN states[s].conflicts # {}

(***************************************************************************)
(* Properties of the pass distributed over workers.                        *)
(***************************************************************************)
\* The Messages the sequential report_error can return for a conflict,
\* over what the Tracer may yield for it.
SequentialClassifications(la, c) ==
    IF GatherPanics(la, c) THEN {}
    ELSE {result \in
            {ClassifyTiers(grammar, la, c, SortByLen(a.examples),
                           SortByLen(r.examples))
             : a \in ActionGatherings(la, c),
               r \in gather_reduce_examples(c.state, c.production, la, traces)}
          : result.kind \in Variants}

SequentialMessages(la, c) ==
    {Dispatch(states, la, c, result) : result \in SequentialClassifications(la, c)}
    \ {PanicMessage}

WellFormedAutomaton ==
    \A n \in DOMAIN registered :
        ~(registered[n].lookahead = EOF /\ registered[n].conflict.action.kind = "Shift")

\* Every example the Tracer can yield keeps its reductions within its symbols.
TracesWithinSymbols == \A e \in traces : ReductionsWithinSymbols(e)

Finished == pc \in {"returned", "panicked"}

\* Every call of report_errors ends: it returns or it panics.
PassTerminates == <>Finished

\* C17: for a finite automaton and finite lists of examples, report_errors
\* eventually finishes and every conflict is eventually reported.
C17_EveryConflictReported ==
    (WellFormedAutomaton /\ TracesWithinSymbols)
    => <>(/\ pc = "returned"
          /\ Len(returned.list) = Len(registered))

(***************************************************************************)
(* Stability of the sort.                                                  *)
(***************************************************************************)
\* The examples of n symbols, in the order of the list.
RECURSIVE OfLen(_, _)
OfLen(examples, n) ==
    IF examples = <<>> THEN <<>>
    ELSE IF Len(Head(examples).symbols) = n
         THEN <<Head(examples)>> \o OfLen(Tail(examples), n)
         ELSE OfLen(Tail(examples), n)

SymbolCounts(examples) == {Len(examples[i].symbols) : i \in DOMAIN examples}

KeepsDiscoveryOrder(sorted, gathered) ==
    \A n \in SymbolCounts(gathered) : OfLen(sorted, n) = OfLen(gathered, n)

\* C18: the shortest-first sort is stable: in the action list and in the
\* reduce list, the examples of equal symbols.len() stay in the order in
\* which the Tracer yielded them.
C18_SortIsStable ==
    Gathered =>
        /\ KeepsDiscoveryOrder(action_examples, action_traced)
        /\ KeepsDiscoveryOrder(reduce_examples, reduce_traced)

\* The Tracer yielded two different examples of one length: they are
\* sorted, and stand in the order yielded.
C18_Witness ==
    /\ Gathered
    /\ Len(action_traced) = 2
    /\ action_traced[1] # action_traced[2]
    /\ Len(action_traced[1].symbols) = Len(action_traced[2].symbols)
    /\ action_examples = action_traced
    /\ reduce_examples # <<>>

(***************************************************************************)
(* First match wins.                                                       *)
(***************************************************************************)
\* What the tier of the variant asks of a pair.
QualifiesFor(kind, action, reduce) ==
    IF kind \in {"Ambiguity", "Precedence"}
    THEN action.symbols = reduce.symbols /\ action.cursor = reduce.cursor
    ELSE QualifiesForInline(action, reduce)

\* Pair (i2, j2) comes before pair (i, j) in a product with the action
\* examples as the outer sequence.
ComesBefore(i2, j2, i, j) == i2 < i \/ (i2 = i /\ j2 < j)

\* C19: in each tier the pair cited is the first qualifying pair of the
\* product of the sorted lists, action examples outermost: smallest action
\* index, then smallest reduce index.  The variant of the inline tier is
\* decided by that pair alone: SuggestQuestion exactly when the nonterminal
\* of its reduce example's first reduction is optional-shaped.
C19_FirstMatchWins ==
    (/\ Gathered
     /\ classification.kind \in
            {"Ambiguity", "Precedence", "SuggestInline", "SuggestQuestion"})
    => \E i \in DOMAIN action_examples, j \in DOMAIN reduce_examples :
          /\ classification.action = action_examples[i]
          /\ classification.reduce = reduce_examples[j]
          /\ QualifiesFor(classification.kind, action_examples[i], reduce_examples[j])
          /\ \A i2 \in DOMAIN action_examples, j2 \in DOMAIN reduce_examples :
                ComesBefore(i2, j2, i, j) =>
                    ~QualifiesFor(classification.kind, action_examples[i2],
                                  reduce_examples[j2])
          /\ classification.kind \in {"SuggestInline", "SuggestQuestion"} =>
                (classification.kind = "SuggestQuestion"
                    <=> OptionalShape(grammar[reduce_examples[j].reductions[1].nonterminal]))

\* SuggestInline for a first pair whose nonterminal is not optional-shaped,
\* while a later pair qualifies on a nonterminal that is.
C19_Witness ==
    /\ Gathered
    /\ classification.kind = "SuggestInline"
    /\ \E k \in QualifyingPairs(action_examples, reduce_examples) :
          /\ PairReduce(action_examples, reduce_examples, k) # classification.reduce
          /\ OptionalShape(grammar[PairReduce(action_examples, reduce_examples, k)
                                      .reductions[1].nonterminal])

(***************************************************************************)
(* The pair of the ambiguity tier is a shortest one.                       *)
(***************************************************************************)
EqualPair(action, reduce) ==
    action.symbols = reduce.symbols /\ action.cursor = reduce.cursor

\* C20: the pair cited by Ambiguity or Precedence is a minimal one: it has
\* equal symbols and equal cursor, and no pair of what the Tracer yielded
\* with equal symbols and equal cursor has fewer symbols.
C20_CitedPairIsMinimal ==
    (Gathered /\ classification.kind \in {"Ambiguity", "Precedence"})
    => /\ EqualPair(classification.action, classification.reduce)
       /\ \A i \in DOMAIN action_traced, j \in DOMAIN reduce_traced :
             EqualPair(action_traced[i], reduce_traced[j]) =>
                Len(classification.action.symbols) <= Len(action_traced[i].symbols)

\* The Tracer yielded a longer pair with equal symbols and cursor before
\* the pair cited.
C20_Witness ==
    /\ Gathered
    /\ classification.kind \in {"Ambiguity", "Precedence"}
    /\ Len(action_traced) = 2
    /\ Len(reduce_traced) = 2
    /\ EqualPair(action_traced[1], reduce_traced[1])
    /\ EqualPair(action_traced[2], reduce_traced[2])
    /\ Len(action_traced[2].symbols) < Len(action_traced[1].symbols)
    /\ classification.action = action_traced[2]
    /\ classification.reduce = reduce_traced[2]

(***************************************************************************)
(* The inner suffix.                                                       *)
(***************************************************************************)
\* The symbols of both examples strictly after the end of their own first
\* reduction are as many and the same, one by one.
SameInnerSuffix(action, reduce) ==
    LET a_end == action.reductions[1].end
        r_end == reduce.reductions[1].end
    IN /\ Len(action.symbols) - a_end = Len(reduce.symbols) - r_end
       /\ \A k \in 1..(Len(action.symbols) - a_end) :
             action.symbols[a_end + k] = reduce.symbols[r_end + k]

\* C21: the inner suffix of an example is the symbols strictly after the
\* end of its own first reduction; the pair the inline tier cites has
\* identical inner suffixes (same symbols, same order, same length), and a
\* pair of two-reduction examples with identical inner suffixes passes
\* whatever its cursors, its offsets and the symbols before them.
C21_InnerSuffixDecides ==
    Gathered =>
        /\ classification.kind \in {"SuggestInline", "SuggestQuestion"} =>
              SameInnerSuffix(classification.action, classification.reduce)
        /\ (/\ classification.kind \in Variants
            /\ \E i \in DOMAIN action_examples, j \in DOMAIN reduce_examples :
                  /\ Len(action_examples[i].reductions) = 2
                  /\ Len(reduce_examples[j].reductions) = 2
                  /\ reduce_examples[j].reductions[1].nonterminal
                        # reduce_examples[j].reductions[2].nonterminal
                  /\ SameInnerSuffix(action_examples[i], reduce_examples[j]))
           => classification.kind \in
                 {"Ambiguity", "Precedence", "SuggestInline", "SuggestQuestion"}

\* The pair cited differs in cursor, in the end of the first reduction and
\* in the symbols before it.
C21_Witness ==
    /\ Gathered
    /\ classification.kind \in {"SuggestInline", "SuggestQuestion"}
    /\ classification.action.cursor # classification.reduce.cursor
    /\ classification.action.reductions[1].end
          # classification.reduce.reductions[1].end
    /\ SubSeq(classification.action.symbols, 1,
              classification.action.reductions[1].end)
          # SubSeq(classification.reduce.symbols, 1,
                   classification.reduce.reductions[1].end)
    /\ classification.action.symbols # classification.reduce.symbols

(***************************************************************************)
(* Headings.                                                               *)
(***************************************************************************)
Headings ==
    {"Ambiguous grammar detected", "Local ambiguity detected", "Conflict detected"}

HeadingOf(kind) ==
    CASE kind \in {"Ambiguity", "Precedence"} -> "Ambiguous grammar detected"
      [] kind \in {"SuggestInline", "SuggestQuestion", "InsufficientLookahead"} ->
            "Local ambiguity detected"
      [] kind = "Naive" -> "Conflict detected"

\* The closing prose tells the builder routines apart.
BuilderOf(kind) ==
    CASE kind = "Ambiguity" -> "ambiguous"
      [] kind = "Precedence" -> "precedence"
      [] kind = "SuggestInline" -> "inline"
      [] kind = "SuggestQuestion" -> "question"
      [] kind = "InsufficientLookahead" -> "lr1"
      [] kind = "Naive" -> "naive"

\* report_error has just returned the Message of the classification.
JustReported ==
    /\ pc = "iterating"
    /\ position > 0
    /\ Len(messages) = position

\* C22: each classification variant is dispatched to exactly one builder
\* and fixes the heading: Ambiguity and Precedence give "Ambiguous grammar
\* detected", SuggestInline, SuggestQuestion and InsufficientLookahead give
\* "Local ambiguity detected", Naive gives "Conflict detected"; no message
\* carries any other heading.
C22_VariantFixesHeading ==
    /\ \A n \in DOMAIN messages : messages[n].heading \in Headings
    /\ \A n \in DOMAIN returned.list : returned.list[n].heading \in Headings
    /\ JustReported =>
          /\ classification.kind \in Variants
          /\ messages[position].heading = HeadingOf(classification.kind)
          /\ messages[position].closing = BuilderOf(classification.kind)

\* A list returned with two headings in it.
C22_Witness ==
    /\ pc = "returned"
    /\ \E n, m \in DOMAIN returned.list :
          /\ returned.list[n].heading = "Ambiguous grammar detected"
          /\ returned.list[m].heading = "Conflict detected"

(***************************************************************************)
(* The skeleton of a Message.                                              *)
(***************************************************************************)
\* A heading, a body that is a symbol list and not a list of items, one or
\* two pictures and a closing.
HasCommonSkeleton(m) ==
    /\ m.heading \in Headings
    /\ m.items = <<>>
    /\ Len(m.pictures) \in {1, 2}
    /\ m.closing # ""

\* C23, as claimed: every Message produced, for each of the six variants,
\* consists of a heading, a body section with a flat symbol list, one or two
\* picture sections each rendering one Example, and a closing prose
\* section.
C23_AllShareSkeleton ==
    \A n \in DOMAIN messages : HasCommonSkeleton(messages[n])

\* C23: the five builders that are given examples share the skeleton, with
\* exactly two pictures, one of the action example and one of the reduce
\* example cited; the Message of Naive has a heading, the items of the
\* state and a closing, and neither a symbol list nor a picture.
C23_ExampleBuildersShareSkeleton ==
    /\ \A n \in DOMAIN messages :
          IF messages[n].closing = "naive"
          THEN /\ messages[n].heading = "Conflict detected"
               /\ messages[n].pictures = <<>>
               /\ messages[n].symbols = <<>>
          ELSE /\ HasCommonSkeleton(messages[n])
               /\ Len(messages[n].pictures) = 2
    /\ (JustReported /\ classification.kind # "Naive") =>
          /\ messages[position].closing # "naive"
          /\ {messages[position].pictures[k] : k \in 1..2}
                = {classification.action, classification.reduce}
    /\ (JustReported /\ classification.kind = "Naive") =>
          messages[position].closing = "naive"

\* A pass that reported one conflict with two pictures and one with none.
C23_Witness ==
    /\ pc = "returned"
    /\ \E n, m \in DOMAIN returned.list :
          /\ Len(returned.list[n].pictures) = 2
          /\ returned.list[m].pictures = <<>>
          /\ returned.list[m].items # <<>>

(***************************************************************************)
(* The symbol list of the body.                                            *)
(***************************************************************************)
IsPrefixOf(list, symbols) ==
    /\ Len(list) <= Len(symbols)
    /\ \A k \in 1..Len(list) : list[k] = symbols[k]

FirstSymbols(example, n) == [k \in 1..n |-> example.symbols[k]]

\* The Message just built cites two examples.
JustReportedPair ==
    /\ JustReported
    /\ classification.kind \in Variants \ {"Naive"}

C25_NaiveListsStateItems ==
    (JustReported /\ classification.kind = "Naive") =>
        LET m == messages[position]
            its == states[conflict.state + 1].items
        IN /\ Len(m.items) = Len(its)
           /\ \A k \in DOMAIN its : m.items[k] = its[k]
           /\ m.mentions[1] = lookahead
           /\ m.mentions[2] = Nonterminal(conflict.production.nonterminal)
           /\ m.pictures = <<>>

\* A Naive message for a conflict of the second state, whose items are not
\* those of the first.
C25_Witness ==
    /\ JustReported
    /\ classification.kind = "Naive"
    /\ conflict.state = 1
    /\ states[2].items # states[1].items
    /\ messages[position].items = states[2].items

(***************************************************************************)
(* conflicting_shift_items and the backtraces of shift_examples.           *)
(***************************************************************************)
\* The items of the state with the lookahead terminal right after the dot.
ShiftingOn(state, la) ==
    {i \in DOMAIN state.items :
        /\ state.items[i].index < Len(state.items[i].production.symbols)
        /\ state.items[i].production.symbols[state.items[i].index + 1] = la}

LR0Form(item) == [production |-> item.production, index |-> item.index]

ShiftCalls == {k \in DOMAIN tracer_calls : tracer_calls[k].kind = "shift"}

ElementsOf(examples) == {examples[k] : k \in DOMAIN examples}

\* C27: every example cited by a classification is an element of the list
\* it is named after, the action field of action_examples and the reduce
\* field of reduce_examples; Ambiguity and Precedence cite two examples of
\* equal symbols and equal cursor; SuggestInline and SuggestQuestion cite
\* two examples of exactly two reductions each.
C27_CitedFromOwnList ==
    (Gathered /\ classification.kind \in Variants \ {"Naive"}) =>
        /\ classification.action \in ElementsOf(action_examples)
        /\ classification.reduce \in ElementsOf(reduce_examples)
        /\ classification.action \in ElementsOf(action_traced)
        /\ classification.reduce \in ElementsOf(reduce_traced)
        /\ classification.kind \in {"Ambiguity", "Precedence"} =>
              /\ classification.action.symbols = classification.reduce.symbols
              /\ classification.action.cursor = classification.reduce.cursor
        /\ classification.kind \in {"SuggestInline", "SuggestQuestion"} =>
              /\ Len(classification.action.reductions) = 2
              /\ Len(classification.reduce.reductions) = 2

\* The lists share no example, and each side is cited from its own.
C27_Witness ==
    /\ Gathered
    /\ classification.kind \in {"SuggestInline", "InsufficientLookahead"}
    /\ ElementsOf(action_examples) \cap ElementsOf(reduce_examples) = {}
    /\ Len(action_examples) = 2
    /\ Len(reduce_examples) = 2
    /\ classification.action # classification.reduce

(***************************************************************************)
(* A reduce/reduce conflict at the end of input.                           *)
(***************************************************************************)
ReduceAtEOF == lookahead = EOF /\ conflict.action.kind = "Reduce"

\* The completed item of a production under a lookahead.
CompletedItem(production, la) ==
    [production |-> production, index |-> Len(production.symbols),
     lookahead |-> la]

\* C28: an EOF lookahead is fatal only for Shift conflicts.  For a conflict
\* whose action is Reduce(production), classify under EOF never reaches the
\* "can't shift EOF" panic: both lists are gathered by reduce backtraces
\* from conflict.state on completed items carrying EOF, the action list for
\* the action's production and then the reduce list for
\* conflict.production, and the conflict is classified and reported like
\* any other.
C28_ReduceAtEOFIsClassified ==
    /\ (ReduceAtEOF /\ pc \in {"dispatch", "panicked"}) => ~ExplicitPanic
    /\ (ReduceAtEOF /\ Gathered) =>
          /\ Len(tracer_calls) = 2
          /\ \A k \in 1..2 :
                /\ tracer_calls[k].kind = "reduce"
                /\ tracer_calls[k].state = conflict.state
          /\ tracer_calls[1].item = CompletedItem(conflict.action.production, EOF)
          /\ tracer_calls[2].item = CompletedItem(conflict.production, EOF)
          /\ classification.kind \in Variants
    /\ (ReduceAtEOF /\ JustReported) =>
          /\ messages[position].heading = HeadingOf(classification.kind)
          /\ \A k \in DOMAIN messages[position].mentions :
                messages[position].mentions[k] # Plus
                /\ messages[position].mentions[k] # Star

\* A reduce/reduce conflict at the end of input reported from its examples.
C28_Witness ==
    /\ ReduceAtEOF
    /\ JustReported
    /\ classification.kind \in {"Ambiguity", "SuggestQuestion", "InsufficientLookahead"}
    /\ messages[position].pictures # <<>>

(***************************************************************************)
(* Properties of the lexer.                                                *)
(***************************************************************************)
\* The fields of the matcher when call i of next returned
ConsumedAfter(i) ==
    IF i < Len(history) THEN history[i + 1].consumed ELSE consumed

TextAfter(i) == IF i < Len(history) THEN history[i + 1].text ELSE text

\* The chars of s whose bytes are at the offsets a to b - 1
Bytes(s, a, b) == SubSeq(s, CharsBefore(s, a) + 1, CharsBefore(s, b))

GaveOk(i) == history[i].item.kind = "Ok"

\* C29: after any calls of next, consumed plus the length of text is the
\* length of the input and consumed has never decreased; every Ok token
\* starts at or after the consumed of before the call, is not empty, ends
\* at the consumed of after the call, and its slice is the bytes of the
\* input between its start and its end; so the spans of successive tokens
\* increase strictly and do not overlap.
C29_TokensSpanTheInput ==
    /\ consumed + str_len(text) = str_len(input)
    /\ \A i \in DOMAIN history :
          /\ history[i].consumed <= ConsumedAfter(i)
          /\ GaveOk(i) =>
                LET item == history[i].item
                IN /\ history[i].consumed <= item.start
                   /\ item.start < item.end
                   /\ item.end = ConsumedAfter(i)
                   /\ is_char_boundary(input, item.start)
                   /\ is_char_boundary(input, item.end)
                   /\ item.slice = Bytes(input, item.start, item.end)
    /\ \A i, j \in DOMAIN history :
          i < j /\ GaveOk(i) /\ GaveOk(j) =>
             /\ history[i].item.start < history[j].item.start
             /\ history[i].item.end <= history[j].item.start

\* Two tokens with white space between them, a char of two bytes in the
\* input, and the input consumed to its end.
C29_Witness ==
    /\ Len(history) >= 2
    /\ GaveOk(1)
    /\ GaveOk(2)
    /\ history[2].item.start > history[1].item.end
    /\ consumed = str_len(input)
    /\ str_len(input) > Len(input)

GaveInvalidToken(i) == history[i].item.kind = "InvalidToken"

\* The offset of the first char of the input at or after byte a that is
\* no white space
IsFirstNonWhitespace(location, a) ==
    /\ is_char_boundary(input, location)
    /\ a <= location
    /\ location < str_len(input)
    /\ ~is_whitespace(input[CharsBefore(input, location) + 1])
    /\ \A k \in DOMAIN Bytes(input, a, location) :
          is_whitespace(Bytes(input, a, location)[k])

\* C30: a call of next that returns InvalidToken leaves text and consumed
\* as they were, its location is the offset of the first char of the
\* remaining input that is no white space, and every later call returns
\* the same InvalidToken; after a call that returned None every later call
\* returns None and leaves consumed at the length of the input.
C30_ErrorAndEndRepeat ==
    \A i \in DOMAIN history :
       /\ GaveInvalidToken(i) =>
             /\ TextAfter(i) = history[i].text
             /\ ConsumedAfter(i) = history[i].consumed
             /\ IsFirstNonWhitespace(history[i].item.location,
                                     history[i].consumed)
             /\ \A j \in DOMAIN history :
                   j > i => history[j].item = history[i].item
       /\ history[i].item = ItemNone =>
             \A j \in DOMAIN history :
                j > i => /\ history[j].item = ItemNone
                         /\ ConsumedAfter(j) = str_len(input)

\* After a token, white space and then a char no token starts with: two
\* calls that returned InvalidToken.
C30_Witness ==
    /\ Len(history) >= 3
    /\ GaveOk(1)
    /\ GaveInvalidToken(2)
    /\ GaveInvalidToken(3)
    /\ history[2].item.location > history[2].consumed

====
